---------------------------- MODULE Spec2Model ----------------------------
(***************************************************************************)
(* ptrack: block level incremental backup engine (ptrack.c).               *)
(*                                                                         *)
(* The shared map ptrack_map is an array of LSN slots plus init_lsn.  The  *)
(* storage manager hooks mark pages in it, the checkpoint hook flushes it, *)
(* ptrack_init_lsn() reads init_lsn and ptrack_get_pagemapset(lsn) is a    *)
(* set-returning function that walks the data directory and returns one    *)
(* (path, pagemap) row per changed file, one row per call.                 *)
(***************************************************************************)
EXTENDS Integers, Sequences, FiniteSets, TLC

(***************************************************************************)
(* Bounds of the model.                                                    *)
(***************************************************************************)
MaxLsn == 3            \* LSNs are 0 (InvalidXLogRecPtr) .. MaxLsn
MapSlots == 3          \* number of slots of an enabled map
RELSEG_SIZE == 2       \* blocks per segment file, scaled down from 131072
BLCKSZ == 2            \* bytes per block, scaled down from 8192

(***************************************************************************)
(* Program constants.                                                      *)
(***************************************************************************)
InvalidXLogRecPtr == 0
InvalidOid == 0
GLOBALTABLESPACE_OID == 1664
DEFAULTTABLESPACE_OID == 1663
MAIN_FORKNUM == 0
\* the null pointer: a value equal to no map, path, file or page
NULL == [null |-> TRUE]

Max(a, b) == IF a >= b THEN a ELSE b

LSNs == 0..MaxLsn

(***************************************************************************)
(* The data directory.  A directory entry carries what the code derives    *)
(* from its name: numeric = strspn(d_name + 1, digits) == strlen(d_name+1),*)
(* oid = atooid(d_name), temp = looks_like_temp_rel_name(d_name), isrel =  *)
(* parse_filename_for_nontemp_relation(d_name) with its fork number, seg = *)
(* the number after the first "." of the name, verdir = the name is        *)
(* TABLESPACE_VERSION_DIRECTORY.                                           *)
(***************************************************************************)
RegFile(rel, fork, seg) ==
    [kind |-> "reg", numeric |-> (fork = MAIN_FORKNUM /\ seg = 0), oid |-> rel,
     temp |-> FALSE, isrel |-> TRUE, forknum |-> fork, seg |-> seg,
     verdir |-> FALSE, sub |-> <<>>]

TempFile(rel) ==
    [kind |-> "reg", numeric |-> FALSE, oid |-> 0,
     temp |-> TRUE, isrel |-> FALSE, forknum |-> MAIN_FORKNUM, seg |-> 0,
     verdir |-> FALSE, sub |-> <<>>]

OtherFile ==
    [kind |-> "reg", numeric |-> FALSE, oid |-> 0,
     temp |-> FALSE, isrel |-> FALSE, forknum |-> MAIN_FORKNUM, seg |-> 0,
     verdir |-> FALSE, sub |-> <<>>]

OidDir(k, oid, sub) ==
    [kind |-> k, numeric |-> TRUE, oid |-> oid,
     temp |-> FALSE, isrel |-> FALSE, forknum |-> MAIN_FORKNUM, seg |-> 0,
     verdir |-> FALSE, sub |-> sub]

\* an entry whose lstat() fails (lines 250-258): the file vanished after readdir
GoneFile(rel) ==
    [kind |-> "none", numeric |-> TRUE, oid |-> rel,
     temp |-> FALSE, isrel |-> TRUE, forknum |-> MAIN_FORKNUM, seg |-> 0,
     verdir |-> FALSE, sub |-> <<>>]

VersionDir(sub) ==
    [kind |-> "dir", numeric |-> FALSE, oid |-> 0,
     temp |-> FALSE, isrel |-> FALSE, forknum |-> MAIN_FORKNUM, seg |-> 0,
     verdir |-> TRUE, sub |-> sub]

\* $PGDATA/global, $PGDATA/base and $PGDATA/pg_tblspc in readdir order
GlobalDir == << OtherFile, RegFile(1, MAIN_FORKNUM, 0) >>

BaseDir ==
    << OidDir("dir", 5, << RegFile(2, MAIN_FORKNUM, 0), TempFile(9),
                           GoneFile(4), RegFile(2, MAIN_FORKNUM, 1),
                           OtherFile >>) >>

TblspcDir ==
    << OidDir("lnk", 7, << VersionDir(<< OidDir("dir", 5,
                                  << RegFile(3, MAIN_FORKNUM, 0) >>) >>) >>) >>

(***************************************************************************)
(* ptrack_gather_filelist: the list of PtrackFileList_i items appended for *)
(* the entries of one directory, recursively.                              *)
(***************************************************************************)
RelPathOf(dbOid, spcNode, relNode, forknum) == <<spcNode, dbOid, relNode, forknum>>

RECURSIVE ptrack_gather_filelist(_, _, _)
ptrack_gather_filelist(entries, spcOid, dbOid) ==
    IF entries = <<>> THEN <<>>
    ELSE LET de == Head(entries)
             spcNode == IF spcOid = InvalidOid THEN DEFAULTTABLESPACE_OID ELSE spcOid
             pfl == [relnode |-> [spcNode |-> spcNode, dbNode |-> dbOid, relNode |-> de.oid],
                     forknum |-> de.forknum,
                     segno |-> IF de.forknum = MAIN_FORKNUM THEN de.seg ELSE 0,
                     path |-> RelPathOf(dbOid, spcNode, de.oid, de.forknum)]
             found ==
                 IF de.temp THEN <<>>
                 ELSE IF de.kind = "none" THEN <<>>
                 ELSE IF de.kind = "reg"
                 THEN IF (dbOid # InvalidOid \/ spcOid = GLOBALTABLESPACE_OID) /\ de.isrel
                      THEN << pfl >>
                      ELSE <<>>
                 ELSE IF de.kind = "dir"
                 THEN IF de.numeric /\ dbOid = InvalidOid
                      THEN ptrack_gather_filelist(de.sub, spcOid, de.oid)
                      ELSE IF spcOid # InvalidOid /\ de.verdir
                      THEN ptrack_gather_filelist(de.sub, spcOid, InvalidOid)
                      ELSE <<>>
                 ELSE IF de.numeric
                      THEN ptrack_gather_filelist(de.sub, de.oid, InvalidOid)
                      ELSE <<>>
         IN found \o ptrack_gather_filelist(Tail(entries), spcOid, dbOid)

\* a mutation of GatherAll: base is walked before global
GatherAllBaseFirst ==
    ptrack_gather_filelist(BaseDir, InvalidOid, InvalidOid)
    \o ptrack_gather_filelist(GlobalDir, GLOBALTABLESPACE_OID, InvalidOid)
    \o ptrack_gather_filelist(TblspcDir, InvalidOid, InvalidOid)

\* the three calls of the first call of ptrack_get_pagemapset
GatherAll ==
    ptrack_gather_filelist(GlobalDir, GLOBALTABLESPACE_OID, InvalidOid)
    \o ptrack_gather_filelist(BaseDir, InvalidOid, InvalidOid)
    \o ptrack_gather_filelist(TblspcDir, InvalidOid, InvalidOid)


(***************************************************************************)
(* State.                                                                  *)
(***************************************************************************)
VARIABLES
    srv,               \* "up" | "down": the server (postmaster and backends)
    xlog,              \* current WAL position (GetXLogInsertRecPtr)
    ptrack_map_size,   \* configured number of slots, 0 = disabled
    ptrack_map,        \* NULL or [init_lsn, entries]
    mapfile,           \* the persisted map: NULL or [size, init_lsn, entries, crc]
    qpc,               \* position of the backend running ptrack_get_pagemapset
    ctx,               \* PtScanCtx: lsn, filelist, relpath, bid, relsize
    pagemap,           \* datapagemap_t of the running call
    row,               \* what the last call returned: NoRow or [path, pagemap]
    InterruptPending,  \* a query cancel was signalled and not yet processed
    maxMark,           \* history: highest LSN marked for a page since startup
    staleMark,         \* history: some mark carried an LSN below its slot's value
    mustSet,           \* history: offsets of the current file marked before read
    init_ret,          \* what the last ptrack_init_lsn() returned, and in which epoch
    epoch,             \* history: number and LSN of the last map initialization,
                       \*          and what the last startup did: init, load or off
    ckpt,              \* history: what the last completed checkpoint wrote
    copied,            \* history: the last ptrack_copydir_hook call, and whether
                       \*          the running query started after it
    seen,              \* history: one row that was returned, or NULL for none yet,
                       \*          or NoWatch when no row is to be remembered
    prev_hooks,        \* the hooks that were installed before ptrack's (non-NULL
                       \* prev_*_hook)
    prev_called        \* the calls of previous hooks made by the last ptrack hook

mapvars == <<srv, xlog, ptrack_map_size, ptrack_map, mapfile>>
qvars == <<qpc, ctx, pagemap, row, InterruptPending, mustSet>>
markvars == <<maxMark, staleMark>>
lifevars == <<init_ret, epoch, ckpt>>
histvars == <<copied, seen>>
hookvars == <<prev_hooks, prev_called>>
vars == <<mapvars, qvars, markvars, lifevars, histvars, hookvars>>

(***************************************************************************)
(* The shared map.                                                         *)
(***************************************************************************)
Bid(spc, db, rel, fork, blk) ==
    [relnode |-> [spcNode |-> spc, dbNode |-> db, relNode |-> rel],
     forknum |-> fork, blocknum |-> blk]

\* BID_HASH_FUNC(bid): the slot of a page in a map of nslots slots
BID_HASH_FUNC(bid, nslots) ==
    IF nslots = 0 THEN 0
    ELSE (bid.relnode.spcNode + bid.relnode.dbNode + bid.relnode.relNode
          + bid.forknum + bid.blocknum) % nslots

\* a freshly initialized map: every slot InvalidXLogRecPtr
ptrackMapInit(nslots, nowLsn) ==
    IF nslots = 0 THEN NULL
    ELSE [init_lsn |-> nowLsn, entries |-> [i \in 0..(nslots - 1) |-> InvalidXLogRecPtr]]

NSlots(map) == IF map = NULL THEN 0 ELSE Cardinality(DOMAIN map.entries)

\* pg_atomic_read_u64(&ptrack_map->entries[slot])
ReadSlot(map, bid) == map.entries[BID_HASH_FUNC(bid, NSlots(map))]

\* a mutation of ptrack_mark_block: a plain store instead of the atomic maximum
ptrack_mark_block_store(map, size, bid, lsn) ==
    IF size # 0 /\ map # NULL
    THEN [map EXCEPT !.entries[BID_HASH_FUNC(bid, NSlots(map))] = lsn]
    ELSE map

\* a mutation of ptrack_mark_block: the LSN is stored into every slot
ptrack_mark_block_all(map, size, bid, lsn) ==
    IF size # 0 /\ map # NULL
    THEN [map EXCEPT !.entries = [i \in DOMAIN map.entries |-> Max(map.entries[i], lsn)]]
    ELSE map

\* ptrack_mark_block: slot = max(slot, lsn), a no-op without a map
ptrack_mark_block(map, size, bid, lsn) ==
    IF size # 0 /\ map # NULL
    THEN [map EXCEPT !.entries[BID_HASH_FUNC(bid, NSlots(map))] = Max(@, lsn)]
    ELSE map

\* the pages the storage manager writes in this model
MarkKeys ==
    { Bid(DEFAULTTABLESPACE_OID, 5, 2, MAIN_FORKNUM, 0),
      Bid(DEFAULTTABLESPACE_OID, 5, 2, MAIN_FORKNUM, RELSEG_SIZE) }

MarkHistory(bid, lsn) ==
    /\ maxMark' = [maxMark EXCEPT ![bid] = Max(@, lsn)]
    /\ staleMark' = (staleMark \/ (ptrack_map # NULL /\ lsn < ReadSlot(ptrack_map, bid)))

HookNames == {"copydir", "mdwrite", "mdextend", "ProcessSyncRequests"}

\* a mutation of PrevCall: the previous hook is called twice
PrevCallTwice(hook, arg, shared) ==
    IF hook \in prev_hooks
    THEN << [hook |-> hook, arg |-> arg, saw |-> shared],
            [hook |-> hook, arg |-> arg, saw |-> shared] >>
    ELSE <<>>

\* if (prev_X_hook) prev_X_hook(arg): the calls made, each with the shared
\* state (map and persisted map) the previous hook finds when it is called
PrevCall(hook, arg, shared) ==
    IF hook \in prev_hooks
    THEN << [hook |-> hook, arg |-> arg, saw |-> shared] >>
    ELSE <<>>

\* mdwrite_hook: a backend wrote block bid; lsn is the WAL position it read.
\* The previous hook, called last, does not touch the map.
ptrack_mdwrite_hook ==
    /\ srv = "up"
    /\ \E bid \in MarkKeys, lsn \in 1..xlog :
          /\ ptrack_map' = ptrack_mark_block(ptrack_map, ptrack_map_size, bid, lsn)
          /\ MarkHistory(bid, lsn)
          /\ prev_called' = PrevCall("mdwrite", bid, [map |-> ptrack_map', file |-> mapfile])
    /\ UNCHANGED <<srv, xlog, ptrack_map_size, mapfile>>
    /\ UNCHANGED <<qpc, ctx, pagemap, row, InterruptPending, mustSet>>
    /\ UNCHANGED lifevars
    /\ UNCHANGED <<histvars, prev_hooks>>

\* mdextend_hook: a backend extended a relation by block bid
ptrack_mdextend_hook ==
    /\ srv = "up"
    /\ \E bid \in MarkKeys, lsn \in 1..xlog :
          /\ ptrack_map' = ptrack_mark_block(ptrack_map, ptrack_map_size, bid, lsn)
          /\ MarkHistory(bid, lsn)
          /\ prev_called' = PrevCall("mdextend", bid, [map |-> ptrack_map', file |-> mapfile])
    /\ UNCHANGED <<srv, xlog, ptrack_map_size, mapfile>>
    /\ UNCHANGED <<qpc, ctx, pagemap, row, InterruptPending, mustSet>>
    /\ UNCHANGED lifevars
    /\ UNCHANGED <<histvars, prev_hooks>>

(***************************************************************************)
(* ptrack_copydir_hook(path).  A path is what the code reads from the      *)
(* string: its first component, the digits behind it (oid1) and, for       *)
(* pg_tblspc, the digits behind the version directory (oid2).              *)
(***************************************************************************)
\* "base/5" and "pg_tblspc/7/<version>/5", the directories copydir() fills
CopyPaths ==
    { [top |-> "base", oid1 |-> 5, oid2 |-> 0],
      [top |-> "pg_tblspc", oid1 |-> 7, oid2 |-> 5] }

\* a mutation of copydir_oids: base/ is not given the default tablespace
copydir_oids_nospc(path) ==
    IF path.top = "global"
    THEN [spcOid |-> GLOBALTABLESPACE_OID, dbOid |-> InvalidOid]
    ELSE IF path.top = "base"
    THEN [spcOid |-> InvalidOid, dbOid |-> path.oid1]
    ELSE IF path.top = "pg_tblspc"
    THEN [spcOid |-> path.oid1, dbOid |-> path.oid2]
    ELSE [spcOid |-> InvalidOid, dbOid |-> InvalidOid]

\* lines 153-176: tablespace and database OID parsed from the path
copydir_oids(path) ==
    IF path.top = "global"
    THEN [spcOid |-> GLOBALTABLESPACE_OID, dbOid |-> InvalidOid]
    ELSE IF path.top = "base"
    THEN [spcOid |-> DEFAULTTABLESPACE_OID, dbOid |-> path.oid1]
    ELSE IF path.top = "pg_tblspc"
    THEN [spcOid |-> path.oid1, dbOid |-> path.oid2]
    ELSE [spcOid |-> InvalidOid, dbOid |-> InvalidOid]

\* the entries of the directory named oid, and of the version directory
SubDir(entries, oid) ==
    LET i == CHOOSE j \in 1..Len(entries) :
                 entries[j].numeric /\ entries[j].kind # "reg" /\ entries[j].oid = oid
    IN entries[i].sub

VersionSub(entries) ==
    LET i == CHOOSE j \in 1..Len(entries) : entries[j].verdir
    IN entries[i].sub

\* the entries of the directory at path
DirOf(path) ==
    IF path.top = "base" THEN SubDir(BaseDir, path.oid1)
    ELSE IF path.top = "pg_tblspc"
    THEN SubDir(VersionSub(SubDir(TblspcDir, path.oid1)), path.oid2)
    ELSE GlobalDir

\* an entry ptrack_walkdir marks: a relation file that is not temporary
IsRelFile(de) == de.kind = "reg" /\ ~de.temp /\ de.isrel

\* the entry is followed by a later segment of the same relation fork
HasNextSegment(entries, i) ==
    \E j \in 1..Len(entries) :
        /\ IsRelFile(entries[j])
        /\ entries[j].oid = entries[i].oid
        /\ entries[j].forknum = entries[i].forknum
        /\ entries[j].seg = entries[i].seg + 1

\* the block counts of the files of a freshly copied directory: a segment
\* that has a successor is full
NblkSeqs(entries) ==
    { f \in [1..Len(entries) -> 0..RELSEG_SIZE] :
        \A i \in 1..Len(entries) :
           /\ ~IsRelFile(entries[i]) => f[i] = 0
           /\ (IsRelFile(entries[i]) /\ HasNextSegment(entries, i)) => f[i] = RELSEG_SIZE }

\* every page of every relation file of the directory
WalkKeys(entries, spcOid, dbOid, nblk) ==
    UNION { { Bid(spcOid, dbOid, entries[i].oid, entries[i].forknum,
                  entries[i].seg * RELSEG_SIZE + b) : b \in 0..(nblk[i] - 1) } :
            i \in { j \in 1..Len(entries) : IsRelFile(entries[j]) } }

RECURSIVE ptrack_mark_blocks(_, _, _, _)
ptrack_mark_blocks(map, size, bids, lsn) ==
    IF bids = {} THEN map
    ELSE LET b == CHOOSE x \in bids : TRUE
         IN ptrack_mark_blocks(ptrack_mark_block(map, size, b, lsn), size, bids \ {b}, lsn)

\* ptrack_walkdir: ptrack_mark_block for every page of every relation file
ptrack_walkdir(map, size, entries, spcOid, dbOid, nblk, lsn) ==
    ptrack_mark_blocks(map, size, WalkKeys(entries, spcOid, dbOid, nblk), lsn)

\* copydir_hook: copydir() created and filled the directory at path; nblk are
\* the sizes of its files and lsn is the WAL position the marks carry.  The
\* model follows one copydir() call between two starts of the server.
ptrack_copydir_hook ==
    /\ srv = "up"
    /\ copied = NULL
    /\ \E path \in CopyPaths, lsn \in 1..xlog :
        \E nblk \in NblkSeqs(DirOf(path)) :
          LET oids == copydir_oids(path)
              keys == WalkKeys(DirOf(path), oids.spcOid, oids.dbOid, nblk)
          IN /\ ptrack_map' = ptrack_walkdir(ptrack_map, ptrack_map_size, DirOf(path),
                                             oids.spcOid, oids.dbOid, nblk, lsn)
             /\ maxMark' = [k \in MarkKeys |->
                               IF k \in keys THEN Max(maxMark[k], lsn) ELSE maxMark[k]]
             /\ staleMark' = (staleMark \/ (ptrack_map # NULL /\
                                 \E k \in keys : lsn < ReadSlot(ptrack_map, k)))
             /\ copied' = [path |-> path, lsn |-> lsn, nblk |-> nblk, queried |-> FALSE]
             /\ prev_called' = PrevCall("copydir", path,
                                        [map |-> ptrack_map', file |-> mapfile])
    /\ UNCHANGED <<srv, xlog, ptrack_map_size, mapfile>>
    /\ UNCHANGED <<qvars, lifevars>>
    /\ UNCHANGED <<seen, prev_hooks>>

\* the host inserts WAL: the insert position advances
XLogInsert ==
    /\ srv = "up"
    /\ xlog < MaxLsn
    /\ xlog' = xlog + 1
    /\ UNCHANGED <<srv, ptrack_map_size, ptrack_map, mapfile>>
    /\ UNCHANGED <<qvars, markvars, lifevars>>
    /\ UNCHANGED <<histvars, hookvars>>

(***************************************************************************)
(* ptrack_get_pagemapset and its helpers.                                  *)
(***************************************************************************)
NoRow == [path |-> NULL, pagemap |-> {}]

\* no returned row is to be remembered
NoWatch == [watch |-> FALSE]

NoCtx ==
    [lsn |-> 0, filelist |-> <<>>, relpath |-> NULL,
     bid |-> Bid(0, 0, 0, 0, 0), relsize |-> 0]

\* pagemap.bitmap = NULL; pagemap.bitmapsize = 0
EmptyPagemap == [allocated |-> FALSE, bits |-> {}]

\* datapagemap_add: set the bit of blkno, allocating the bitmap on first use
datapagemap_add(pm, blkno) ==
    [allocated |-> TRUE, bits |-> pm.bits \cup {blkno}]

\* what stat() can report for a file: -1 (failure) or st_size in bytes
StatResults == {-1} \cup (0..(RELSEG_SIZE * BLCKSZ))

(***************************************************************************)
(* ptrack_filelist_getnext(ctx).  sts[i] is what stat() reports for the    *)
(* i-th file of ctx.filelist.  The result is [ret, ctx].                   *)
(***************************************************************************)
\* a mutation of ptrack_filelist_getnext: a failed stat() ends the scan
ptrack_filelist_getnext_abort(c, sts) ==
    IF Len(c.filelist) = 0 THEN [ret |-> -1, ctx |-> c]
    ELSE LET pfl == Head(c.filelist)
             c1 == [c EXCEPT !.filelist = Tail(c.filelist),
                             !.relpath = [path |-> pfl.path, segno |-> pfl.segno],
                             !.bid = [relnode |-> pfl.relnode, forknum |-> pfl.forknum,
                                      blocknum |-> 0]]
         IN IF Head(sts) < 0
            THEN [ret |-> -1, ctx |-> c1]
            ELSE IF pfl.segno > 0
            THEN [ret |-> 0,
                  ctx |-> [c1 EXCEPT !.relsize = pfl.segno * RELSEG_SIZE
                                                 + (Head(sts) \div BLCKSZ),
                                     !.bid.blocknum = pfl.segno * RELSEG_SIZE]]
            ELSE [ret |-> 0, ctx |-> [c1 EXCEPT !.relsize = Head(sts) \div BLCKSZ]]

RECURSIVE ptrack_filelist_getnext(_, _)
ptrack_filelist_getnext(c, sts) ==
    IF Len(c.filelist) = 0 THEN [ret |-> -1, ctx |-> c]
    ELSE LET pfl == Head(c.filelist)
             c1 == [c EXCEPT !.filelist = Tail(c.filelist),
                             !.relpath = [path |-> pfl.path, segno |-> pfl.segno],
                             !.bid = [relnode |-> pfl.relnode, forknum |-> pfl.forknum,
                                      blocknum |-> 0]]
         IN IF Head(sts) < 0
            THEN ptrack_filelist_getnext(c1, Tail(sts))
            ELSE IF pfl.segno > 0
            THEN [ret |-> 0,
                  ctx |-> [c1 EXCEPT !.relsize = pfl.segno * RELSEG_SIZE
                                                 + (Head(sts) \div BLCKSZ),
                                     !.bid.blocknum = pfl.segno * RELSEG_SIZE]]
            ELSE [ret |-> 0, ctx |-> [c1 EXCEPT !.relsize = Head(sts) \div BLCKSZ]]

\* the stat() results one call of ptrack_filelist_getnext may meet: stat()
\* fails for the first k files and reports sz for the next one (the results
\* for the files behind it are not read by this call)
StatSeqs(c) ==
    { [i \in 1..Len(c.filelist) |-> IF i <= k THEN -1 ELSE IF i = k + 1 THEN sz ELSE 0] :
        k \in 0..Len(c.filelist), sz \in StatResults \ {-1} }

\* segment number and first block of the file ctx is positioned on
CurSegno(c) == c.relpath.segno
CurFirstBlock(c) == CurSegno(c) * RELSEG_SIZE
\* number of blocks of that file, as stat() reported it
CurNBlocks(c) == c.relsize - CurFirstBlock(c)

MaxMarkOf(bid) == IF bid \in DOMAIN maxMark THEN maxMark[bid] ELSE 0

\* a mutation of BlockChanged: a strict comparison
BlockChangedStrict(update_lsn, lsn) == update_lsn > lsn

\* a mutation of BlockChanged: only a slot that holds the threshold counts
BlockChangedExact(update_lsn, lsn) == update_lsn = lsn

\* line 536: the block has been changed since the specified LSN
BlockChanged(update_lsn, lsn) == update_lsn >= lsn

\* line 490: stop traversal if there are no more segments
SegmentDone(c) == c.bid.blocknum > c.relsize

\* a mutation of HasBitmap: a row is made for every file
HasBitmapAlways(pm) == TRUE

\* a mutation of HasBitmap: no file is returned, the scan goes on to the next
HasBitmapNever(pm) == FALSE

\* line 493: there is a bitmap to return
HasBitmap(pm) == pm.allocated

\* a mutation of pg_atomic_read_u64: an exchange, the slot read is cleared
pg_atomic_exchange_u64(map, bid) ==
    [val |-> ReadSlot(map, bid),
     map |-> [map EXCEPT !.entries[BID_HASH_FUNC(bid, NSlots(map))] =
                             InvalidXLogRecPtr]]

\* line 528: the value of the slot of bid, and the map the read leaves
pg_atomic_read_u64(map, bid) ==
    [val |-> ReadSlot(map, bid), map |-> map]

\* a mutation of ReadBlock: the block number is not advanced
ReadBlockStuck(c, pm, must) ==
    LET rd == pg_atomic_read_u64(ptrack_map, c.bid)
        update_lsn == rd.val
        offset == c.bid.blocknum % RELSEG_SIZE
    IN /\ ptrack_map' = rd.map
       /\ pagemap' = IF BlockChanged(update_lsn, c.lsn)
                     THEN datapagemap_add(pm, offset) ELSE pm
       /\ ctx' = c
       /\ mustSet' = must

(***************************************************************************)
(* Lines 528-539: read the slot of ctx.bid, add its offset to the pagemap  *)
(* if it changed since ctx.lsn, step to the next block.                    *)
(***************************************************************************)
ReadBlock(c, pm, must) ==
    LET rd == pg_atomic_read_u64(ptrack_map, c.bid)
        update_lsn == rd.val
        offset == c.bid.blocknum % RELSEG_SIZE
    IN /\ ptrack_map' = rd.map
       /\ pagemap' = IF BlockChanged(update_lsn, c.lsn)
                     THEN datapagemap_add(pm, offset) ELSE pm
       /\ ctx' = [c EXCEPT !.bid.blocknum = @ + 1]
       /\ mustSet' = IF /\ c.bid.blocknum < c.relsize
                        /\ MaxMarkOf(c.bid) # InvalidXLogRecPtr
                        /\ MaxMarkOf(c.bid) >= c.lsn
                     THEN must \cup {offset} ELSE must

\* lines 479-485: reset the pagemap, take the next file from the list
TakeNextFile ==
    \E sts \in StatSeqs(ctx) :
        LET r == ptrack_filelist_getnext(ctx, sts)
        IN /\ ctx' = r.ctx
           /\ qpc' = IF r.ret < 0 THEN "done" ELSE "scan"
           /\ pagemap' = EmptyPagemap
           /\ row' = NoRow
           /\ mustSet' = {}

Finished == {"idle", "done", "error", "cancelled"}

\* a mutation of NoMap: the check of line 431 is missing
NoMapUnchecked(map) == FALSE

\* line 431: there is no map
NoMap(map) == map = NULL

\* first call, lines 430-456: fail without a map, else set up the context
ptrack_get_pagemapset_first ==
    /\ srv = "up"
    /\ qpc \in Finished
    /\ ~InterruptPending
    /\ \E lsn \in LSNs :
          IF NoMap(ptrack_map)
          THEN /\ qpc' = "error"
               /\ ctx' = NoCtx
          ELSE /\ qpc' = "gather"
               /\ ctx' = [NoCtx EXCEPT !.lsn = lsn]
    /\ pagemap' = EmptyPagemap
    /\ row' = NoRow
    /\ mustSet' = {}
    /\ copied' = IF copied = NULL THEN NULL ELSE [copied EXCEPT !.queried = TRUE]
    /\ UNCHANGED <<InterruptPending>>
    /\ UNCHANGED <<mapvars, markvars, lifevars>>
    /\ UNCHANGED <<seen, hookvars>>

\* first call, lines 464-485: gather the file list and take its first file
ptrack_get_pagemapset_gather ==
    /\ srv = "up"
    /\ qpc = "gather"
    /\ ~InterruptPending
    /\ \E sts \in StatSeqs([ctx EXCEPT !.filelist = GatherAll]) :
        LET r == ptrack_filelist_getnext([ctx EXCEPT !.filelist = GatherAll], sts)
        IN /\ ctx' = r.ctx
           /\ qpc' = IF r.ret < 0 THEN "done" ELSE "scan"
    /\ pagemap' = EmptyPagemap
    /\ row' = NoRow
    /\ mustSet' = {}
    /\ UNCHANGED <<InterruptPending>>
    /\ UNCHANGED <<mapvars, markvars, lifevars>>
    /\ UNCHANGED <<histvars, hookvars>>

\* a later call, lines 476-485
ptrack_get_pagemapset_next ==
    /\ srv = "up"
    /\ qpc = "call"
    /\ ~InterruptPending
    /\ TakeNextFile
    /\ UNCHANGED <<InterruptPending>>
    /\ UNCHANGED <<mapvars, markvars, lifevars>>
    /\ UNCHANGED <<histvars, hookvars>>

\* the pages of the file ctx is on that the storage manager writes
WrittenOffsets(c) ==
    { k.blocknum % RELSEG_SIZE :
        k \in { m \in MarkKeys : /\ m.relnode = c.bid.relnode
                                 /\ m.forknum = c.bid.forknum
                                 /\ m.blocknum \div RELSEG_SIZE = CurSegno(c) } }

\* history: the row being returned is remembered, with one of its pages that
\* the storage manager writes, if no row is remembered yet; or it is not
Remember ==
    \/ seen' = seen
    \/ /\ seen = NULL
       /\ \E o \in pagemap.bits \cap WrittenOffsets(ctx) :
             seen' = [lsn |-> ctx.lsn, path |-> ctx.relpath, relsize |-> ctx.relsize,
                      bit |-> o]

\* one iteration of the loop of lines 487-540
ptrack_get_pagemapset_loop ==
    /\ srv = "up"
    /\ qpc = "scan"
    /\ IF SegmentDone(ctx)
       THEN IF HasBitmap(pagemap)
            THEN \* lines 493-519: return the bitmap of this file as a row
                 /\ row' = [path |-> ctx.relpath,
                            pagemap |-> pagemap.bits]
                 /\ pagemap' = EmptyPagemap
                 /\ qpc' = "call"
                 /\ Remember
                 /\ UNCHANGED <<ctx, mustSet, ptrack_map>>
            ELSE \* lines 520-525, then 528-539 on the new file
                 \E sts \in StatSeqs(ctx) :
                    LET r == ptrack_filelist_getnext(ctx, sts)
                    IN IF r.ret < 0
                       THEN /\ qpc' = "done"
                            /\ ctx' = r.ctx
                            /\ UNCHANGED <<pagemap, row, mustSet, seen>>
                            /\ UNCHANGED ptrack_map
                       ELSE /\ qpc' = "scan"
                            /\ ReadBlock(r.ctx, pagemap, {})
                            /\ UNCHANGED <<row, seen>>
       ELSE /\ ReadBlock(ctx, pagemap, mustSet)
            /\ UNCHANGED <<qpc, row, seen>>
    /\ UNCHANGED <<InterruptPending>>
    /\ UNCHANGED <<srv, xlog, ptrack_map_size, mapfile>>
    /\ UNCHANGED <<markvars, lifevars>>
    /\ UNCHANGED <<copied, hookvars>>

\* the client cancels the running query
SignalCancel ==
    /\ srv = "up"
    /\ qpc \in {"gather", "call", "scan"}
    /\ ~InterruptPending
    /\ InterruptPending' = TRUE
    /\ UNCHANGED <<qpc, ctx, pagemap, row, mustSet>>
    /\ UNCHANGED <<mapvars, markvars, lifevars>>
    /\ UNCHANGED <<histvars, hookvars>>

(***************************************************************************)
(* CHECK_FOR_INTERRUPTS(): in ptrack_gather_filelist for every directory   *)
(* entry (line 241), and in the executor between two calls of the          *)
(* function.  The loop of lines 487-540 has none.                          *)
(***************************************************************************)
ProcessInterrupts ==
    /\ srv = "up"
    /\ qpc \in {"gather", "call", "done"}
    /\ InterruptPending
    /\ InterruptPending' = FALSE
    /\ qpc' = "cancelled"
    /\ ctx' = NoCtx
    /\ pagemap' = EmptyPagemap
    /\ row' = NoRow
    /\ mustSet' = {}
    /\ UNCHANGED <<mapvars, markvars, lifevars>>
    /\ UNCHANGED <<histvars, hookvars>>

(***************************************************************************)
(* ptrack_init_lsn().                                                      *)
(***************************************************************************)
NoInitRet == [called |-> FALSE, lsn |-> 0, warning |-> FALSE, error |-> FALSE, epoch |-> 0]

\* a mutation of ptrack_init_lsn_result: the disabled case raises an error
ptrack_init_lsn_result_error(map) ==
    IF map # NULL
    THEN [called |-> TRUE, lsn |-> map.init_lsn, warning |-> FALSE, error |-> FALSE,
          epoch |-> epoch.n]
    ELSE [called |-> TRUE, lsn |-> InvalidXLogRecPtr, warning |-> FALSE, error |-> TRUE,
          epoch |-> 0]

\* a mutation of ptrack_init_lsn_result: the LSN of the map is not returned
ptrack_init_lsn_result_invalid(map) ==
    [called |-> TRUE, lsn |-> InvalidXLogRecPtr, warning |-> map = NULL, error |-> FALSE,
     epoch |-> IF map = NULL THEN 0 ELSE epoch.n]

\* lines 402-412: what the function returns and whether it warns
ptrack_init_lsn_result(map) ==
    IF map # NULL
    THEN [called |-> TRUE, lsn |-> map.init_lsn, warning |-> FALSE, error |-> FALSE,
          epoch |-> epoch.n]
    ELSE [called |-> TRUE, lsn |-> InvalidXLogRecPtr, warning |-> TRUE, error |-> FALSE,
          epoch |-> 0]

ptrack_init_lsn ==
    /\ srv = "up"
    /\ init_ret' = ptrack_init_lsn_result(ptrack_map)
    /\ UNCHANGED <<epoch, ckpt>>
    /\ UNCHANGED <<mapvars, qvars, markvars>>
    /\ UNCHANGED <<histvars, hookvars>>

(***************************************************************************)
(* Checkpoint, crash and restart.                                          *)
(***************************************************************************)
\* the slot counts the configuration may set: disabled, or one of two sizes
MapSizes == {0, 1, MapSlots}

RECURSIVE SlotSum(_, _)
SlotSum(e, n) ==
    IF n = 0 THEN 0 ELSE e[n - 1] + (MaxLsn + 1) * SlotSum(e, n - 1)

\* the checksum stored with the persisted map, over its whole content
Checksum(size, init_lsn, entries) ==
    size + (MapSlots + 1) * (init_lsn + (MaxLsn + 1)
                                * SlotSum(entries, Cardinality(DOMAIN entries)))

\* the content ptrackCheckpoint writes for a map
Snapshot(map) ==
    [size |-> NSlots(map), init_lsn |-> map.init_lsn, entries |-> map.entries,
     crc |-> Checksum(NSlots(map), map.init_lsn, map.entries)]

\* the persisted map is present, complete, of the configured size and intact
ValidMapFile(f, size) ==
    /\ f # NULL
    /\ f.size = size
    /\ DOMAIN f.entries = 0..(size - 1)
    /\ f.crc = Checksum(f.size, f.init_lsn, f.entries)

\* a mutation of ptrackMapLoad: the checksum is not verified
ptrackMapLoadUnchecked(f, size, nowLsn) ==
    IF size = 0 THEN NULL
    ELSE IF f # NULL /\ f.size = size
    THEN [init_lsn |-> f.init_lsn,
          entries |-> [i \in 0..(size - 1) |->
                          IF i \in DOMAIN f.entries THEN f.entries[i] ELSE 0]]
    ELSE ptrackMapInit(size, nowLsn)

\* the map after a restart: the persisted one if it is valid, else a fresh one
ptrackMapLoad(f, size, nowLsn) ==
    IF size = 0 THEN NULL
    ELSE IF ValidMapFile(f, size)
    THEN [init_lsn |-> f.init_lsn, entries |-> f.entries]
    ELSE ptrackMapInit(size, nowLsn)

\* lines 215-222: ptrackCheckpoint() replaces the persisted map atomically
ptrack_ProcessSyncRequests_hook ==
    /\ srv = "up"
    /\ IF ptrack_map # NULL
       THEN /\ mapfile' = Snapshot(ptrack_map)
            /\ ckpt' = Snapshot(ptrack_map)
       ELSE UNCHANGED <<mapfile, ckpt>>
    /\ prev_called' = PrevCall("ProcessSyncRequests", NULL,
                               [map |-> ptrack_map, file |-> mapfile'])
    /\ UNCHANGED <<srv, xlog, ptrack_map_size, ptrack_map>>
    /\ UNCHANGED <<init_ret, epoch>>
    /\ UNCHANGED <<qvars, markvars>>
    /\ UNCHANGED <<histvars, prev_hooks>>

\* the persisted map is found damaged at startup: its last slot is cut off,
\* or its first slot is altered
CorruptMapFile ==
    /\ srv = "down"
    /\ mapfile # NULL
    /\ ValidMapFile(mapfile, mapfile.size)
    /\ \/ mapfile' = [mapfile EXCEPT !.entries =
                          [i \in 0..(mapfile.size - 2) |-> mapfile.entries[i]]]
       \/ mapfile' = [mapfile EXCEPT !.entries[0] = (@ + 1) % (MaxLsn + 1)]
    /\ UNCHANGED <<srv, xlog, ptrack_map_size, ptrack_map>>
    /\ UNCHANGED <<qvars, markvars, lifevars>>
    /\ UNCHANGED <<histvars, hookvars>>

\* the server crashes: shared memory and every backend are gone
Crash ==
    /\ srv = "up"
    /\ srv' = "down"
    /\ ptrack_map' = NULL
    /\ qpc' = "idle"
    /\ ctx' = NoCtx
    /\ pagemap' = EmptyPagemap
    /\ row' = NoRow
    /\ InterruptPending' = FALSE
    /\ mustSet' = {}
    /\ maxMark' = [k \in MarkKeys |-> 0]
    /\ staleMark' = FALSE
    /\ copied' = NULL
    /\ seen' = IF seen = NoWatch THEN NoWatch ELSE NULL
    /\ prev_called' = <<>>
    /\ UNCHANGED <<xlog, ptrack_map_size, mapfile>>
    /\ UNCHANGED lifevars
    /\ UNCHANGED <<prev_hooks>>

\* the server starts with the configured size; recovery advances the WAL
Restart ==
    /\ srv = "down"
    /\ xlog < MaxLsn
    /\ srv' = "up"
    /\ xlog' = xlog + 1
    /\ \E size \in MapSizes :
          /\ ptrack_map_size' = size
          /\ ptrack_map' = ptrackMapLoad(mapfile, size, xlog')
          /\ IF size = 0
             THEN \* disabled: the persisted map is removed
                  /\ mapfile' = NULL
                  /\ ckpt' = NULL
                  /\ epoch' = [epoch EXCEPT !.boot = "off"]
             ELSE IF ValidMapFile(mapfile, size)
             THEN /\ epoch' = [epoch EXCEPT !.boot = "load"]
                  /\ UNCHANGED <<mapfile, ckpt>>
             ELSE \* a new map: the rejected file is discarded
                  /\ epoch' = [n |-> epoch.n + 1, lsn |-> xlog', boot |-> "init"]
                  /\ mapfile' = NULL
                  /\ ckpt' = NULL
    /\ UNCHANGED <<init_ret>>
    /\ UNCHANGED <<qvars, markvars>>
    /\ UNCHANGED <<histvars, hookvars>>

(***************************************************************************)
(* Specifications.                                                         *)
(***************************************************************************)
InitQuery ==
    /\ qpc = "idle"
    /\ ctx = NoCtx
    /\ pagemap = EmptyPagemap
    /\ row = NoRow
    /\ InterruptPending = FALSE
    /\ mustSet = {}

InitMarks ==
    /\ maxMark = [k \in MarkKeys |-> 0]
    /\ staleMark = FALSE

\* no directory was copied, no row is remembered, and ptrack's hooks are the
\* first ones installed
InitHist ==
    /\ copied = NULL
    /\ seen = NoWatch
    /\ prev_hooks = {}
    /\ prev_called = <<>>

\* the first start of the server, with or without a map
Init ==
    /\ srv = "up"
    /\ xlog = 1
    /\ ptrack_map_size \in {0, MapSlots}
    /\ ptrack_map = ptrackMapInit(ptrack_map_size, xlog)
    /\ mapfile = NULL
    /\ InitQuery
    /\ InitMarks
    /\ init_ret = NoInitRet
    /\ epoch = IF ptrack_map_size = 0
               THEN [n |-> 0, lsn |-> 0, boot |-> "off"]
               ELSE [n |-> 1, lsn |-> xlog, boot |-> "init"]
    /\ ckpt = NULL
    /\ InitHist

\* a running server: marks and queries
Next ==
    \/ ptrack_mdwrite_hook
    \/ ptrack_mdextend_hook
    \/ XLogInsert
    \/ ptrack_get_pagemapset_first
    \/ ptrack_get_pagemapset_gather
    \/ ptrack_get_pagemapset_next
    \/ ptrack_get_pagemapset_loop
    \/ SignalCancel
    \/ ProcessInterrupts

Spec == Init /\ [][Next]_vars

\* the life cycle of the map: marks, checkpoints, crashes and restarts
NextLife ==
    \/ ptrack_mdwrite_hook
    \/ ptrack_mdextend_hook
    \/ XLogInsert
    \/ ptrack_init_lsn
    \/ ptrack_ProcessSyncRequests_hook
    \/ CorruptMapFile
    \/ Crash
    \/ Restart

SpecLife == Init /\ [][NextLife]_vars

\* a server started from any persisted map, then queried with no writer
InitScan ==
    /\ srv = "up"
    /\ xlog = MaxLsn
    /\ ptrack_map_size = MapSlots
    /\ ptrack_map \in { [init_lsn |-> 1, entries |-> e] : e \in [0..(MapSlots - 1) -> LSNs] }
    /\ mapfile = Snapshot(ptrack_map)
    /\ InitQuery
    /\ InitMarks
    /\ init_ret = NoInitRet
    /\ epoch = [n |-> 1, lsn |-> 1, boot |-> "load"]
    /\ ckpt = mapfile
    /\ InitHist

NextScan ==
    \/ ptrack_get_pagemapset_first
    \/ ptrack_get_pagemapset_gather
    \/ ptrack_get_pagemapset_next
    \/ ptrack_get_pagemapset_loop

SpecScan == InitScan /\ [][NextScan]_vars

\* a server whose slots all hold the same LSN: pages never marked, or all
\* marked at the latest LSN
InitTree ==
    /\ srv = "up"
    /\ xlog = MaxLsn
    /\ ptrack_map_size = MapSlots
    /\ ptrack_map \in { [init_lsn |-> 1, entries |-> [i \in 0..(MapSlots - 1) |-> v]] :
                           v \in {InvalidXLogRecPtr, MaxLsn} }
    /\ mapfile = Snapshot(ptrack_map)
    /\ InitQuery
    /\ InitMarks
    /\ init_ret = NoInitRet
    /\ epoch = [n |-> 1, lsn |-> 1, boot |-> "load"]
    /\ ckpt = mapfile
    /\ InitHist

\* the server at WAL position 2, with an empty map; one returned row will be
\* remembered
InitSeen ==
    /\ srv = "up"
    /\ xlog = 2
    /\ ptrack_map_size = MapSlots
    /\ ptrack_map = ptrackMapInit(ptrack_map_size, 1)
    /\ mapfile = NULL
    /\ InitQuery
    /\ InitMarks
    /\ init_ret = NoInitRet
    /\ epoch = [n |-> 1, lsn |-> 1, boot |-> "init"]
    /\ ckpt = NULL
    /\ copied = NULL
    /\ seen = NULL
    /\ prev_hooks = {}
    /\ prev_called = <<>>

\* writes and queries, in any interleaving, within one epoch
NextSeen ==
    \/ ptrack_mdwrite_hook
    \/ ptrack_get_pagemapset_first
    \/ ptrack_get_pagemapset_gather
    \/ ptrack_get_pagemapset_next
    \/ ptrack_get_pagemapset_loop

SpecSeen == InitSeen /\ [][NextSeen]_vars

\* the first start of the server with a map; any of the four hooks may have
\* been installed by another module before ptrack's
InitHooks ==
    /\ srv = "up"
    /\ xlog = 1
    /\ ptrack_map_size = MapSlots
    /\ ptrack_map = ptrackMapInit(ptrack_map_size, 1)
    /\ mapfile = NULL
    /\ InitQuery
    /\ InitMarks
    /\ init_ret = NoInitRet
    /\ epoch = [n |-> 1, lsn |-> 1, boot |-> "init"]
    /\ ckpt = NULL
    /\ copied = NULL
    /\ seen = NoWatch
    /\ prev_hooks \in SUBSET HookNames
    /\ prev_called = <<>>

\* the host calls the four hooks
NextHooks ==
    \/ ptrack_copydir_hook
    \/ ptrack_mdwrite_hook
    \/ ptrack_mdextend_hook
    \/ ptrack_ProcessSyncRequests_hook

SpecHooks == InitHooks /\ [][NextHooks]_vars

\* directories are copied while the query runs
NextTree ==
    \/ ptrack_copydir_hook
    \/ ptrack_get_pagemapset_first
    \/ ptrack_get_pagemapset_gather
    \/ ptrack_get_pagemapset_next
    \/ ptrack_get_pagemapset_loop

SpecTree == InitTree /\ [][NextTree]_vars

\* a server whose slots were each never marked or marked at the latest LSN
InitFair ==
    /\ srv = "up"
    /\ xlog = MaxLsn
    /\ ptrack_map_size = MapSlots
    /\ ptrack_map \in { [init_lsn |-> 1, entries |-> e] :
                           e \in [0..(MapSlots - 1) -> {InvalidXLogRecPtr, MaxLsn}] }
    /\ mapfile = Snapshot(ptrack_map)
    /\ InitQuery
    /\ InitMarks
    /\ init_ret = NoInitRet
    /\ epoch = [n |-> 1, lsn |-> 1, boot |-> "load"]
    /\ ckpt = mapfile
    /\ InitHist

\* queried by a backend that runs and a caller that fetches every row: a
\* query that was started is called until it reports the end
SpecScanFair ==
    /\ InitFair
    /\ [][NextScan]_vars
    /\ WF_vars(ptrack_get_pagemapset_gather)
    /\ WF_vars(ptrack_get_pagemapset_next)
    /\ WF_vars(ptrack_get_pagemapset_loop)

(***************************************************************************)
(* Properties.                                                             *)
(***************************************************************************)
KeyA == Bid(DEFAULTTABLESPACE_OID, 5, 2, MAIN_FORKNUM, 0)
KeyB == Bid(DEFAULTTABLESPACE_OID, 5, 2, MAIN_FORKNUM, RELSEG_SIZE)

\* a step of the backend running the query
QueryStep == qpc' # qpc \/ ctx' # ctx \/ pagemap' # pagemap

\* the slot of the page at offset o of the file ctx is positioned on
SlotOfOffset(o) == ReadSlot(ptrack_map, [ctx.bid EXCEPT !.blocknum = CurFirstBlock(ctx) + o])

(***************************************************************************)
(* C1: no false negatives.  Whatever marks interleave with the query,      *)
(* every page of the scanned file that was marked with an LSN >= the       *)
(* threshold before the query read its slot has its bit set in the bitmap  *)
(* being built, and in the row returned for the file; a file with such a   *)
(* page is never passed over without a row.                                *)
(***************************************************************************)
C1_NoFalseNegatives ==
    mustSet \subseteq (IF qpc = "call" THEN row.pagemap ELSE pagemap.bits)

\* a row was returned that holds a page marked before it was read
C1_Witness ==
    /\ qpc = "call"
    /\ mustSet # {}
    /\ row.pagemap # {}

(***************************************************************************)
(* C2: within one epoch a slot never decreases under any interleaving of   *)
(* marks: each slot holds the maximum of the LSNs marked into it, so a     *)
(* mark with a lower LSN than the slot's value leaves the slot as it was.  *)
(***************************************************************************)
C2_SlotsMonotone ==
    /\ [](ptrack_map # NULL =>
            \A i \in DOMAIN ptrack_map.entries :
               /\ \A k \in MarkKeys :
                     BID_HASH_FUNC(k, NSlots(ptrack_map)) = i
                        => ptrack_map.entries[i] >= maxMark[k]
               /\ \/ ptrack_map.entries[i] = InvalidXLogRecPtr
                  \/ \E k \in MarkKeys :
                        /\ BID_HASH_FUNC(k, NSlots(ptrack_map)) = i
                        /\ ptrack_map.entries[i] = maxMark[k])
    /\ [][(ptrack_map # NULL /\ ptrack_map' # NULL)
            => \A i \in DOMAIN ptrack_map.entries :
                  ptrack_map'.entries[i] >= ptrack_map.entries[i]]_vars

\* a page was marked with an LSN below the value its slot held, and the slot
\* holds the highest LSN
C2_Witness ==
    /\ ptrack_map # NULL
    /\ staleMark
    /\ ReadSlot(ptrack_map, KeyA) = MaxLsn

(***************************************************************************)
(* C3: with no concurrent marks, for every page offset o inside the file,  *)
(* bit o of the file's bitmap is set exactly when the slot of that page    *)
(* holds an LSN >= the threshold (a file without a row has no bit set).    *)
(***************************************************************************)
C3_ExactBits ==
    /\ qpc = "call" =>
          \A o \in 0..(CurNBlocks(ctx) - 1) :
             (o \in row.pagemap) <=> (SlotOfOffset(o) >= ctx.lsn)
    /\ (qpc = "scan" /\ SegmentDone(ctx) /\ ~HasBitmap(pagemap)) =>
          \A o \in 0..(CurNBlocks(ctx) - 1) : SlotOfOffset(o) < ctx.lsn

(***************************************************************************)
(* C4: the scan reads only slots of pages of the file: the block number    *)
(* read is below the file's block count, a returned bitmap has no bit at   *)
(* or beyond the number of blocks of the file, and a file of zero blocks   *)
(* is never returned.                                                      *)
(***************************************************************************)
C4_ScanInsideFile ==
    /\ qpc \in {"scan", "call"} => ctx.bid.blocknum <= ctx.relsize
    /\ qpc = "call" =>
          /\ CurNBlocks(ctx) > 0
          /\ row.pagemap \subseteq 0..(CurNBlocks(ctx) - 1)

(***************************************************************************)
(* C5: a row is returned for a file if and only if a bit was set while     *)
(* scanning it: a returned bitmap is never empty, the scan passes to the   *)
(* next file only when no bit is set, and a finished file with a bit set   *)
(* is returned with exactly the bits set.                                  *)
(***************************************************************************)
C5_RowIffBitSet ==
    /\ [](qpc = "call" => row.pagemap # {} /\ row.path = ctx.relpath)
    /\ [][(qpc = "scan" /\ QueryStep /\ SegmentDone(ctx))
            => IF pagemap.bits # {}
               THEN qpc' = "call" /\ row' = [path |-> ctx.relpath, pagemap |-> pagemap.bits]
               ELSE /\ row' = NoRow
                    /\ \/ qpc' = "done" /\ ctx'.filelist = <<>>
                       \/ qpc' = "scan" /\ Len(ctx'.filelist) < Len(ctx.filelist)]_vars

\* page A marked below the threshold, page B at or above it: the file of A
\* (its slots all below the threshold) has no row, the file of B is returned
C5_Witness ==
    /\ qpc = "call"
    /\ row.path = [path |-> RelPathOf(5, DEFAULTTABLESPACE_OID, 2, MAIN_FORKNUM), segno |-> 1]
    /\ maxMark[KeyA] # 0
    /\ maxMark[KeyA] < ctx.lsn
    /\ maxMark[KeyB] >= ctx.lsn
    /\ \A b \in 0..(RELSEG_SIZE - 1) :
          ReadSlot(ptrack_map, [KeyA EXCEPT !.blocknum = b]) < ctx.lsn

(***************************************************************************)
(* C6: without a map every call of the query fails with the "disabled"     *)
(* error: no file list is gathered, no file is scanned, no row returned.   *)
(***************************************************************************)
C6_DisabledFails ==
    ptrack_map = NULL =>
       /\ qpc \in {"idle", "error"}
       /\ row = NoRow
       /\ ctx = NoCtx
       /\ pagemap = EmptyPagemap

\* the query was called without a map
C6_Witness == ptrack_map = NULL /\ qpc = "error"

(***************************************************************************)
(* C7: init_lsn changes only when the map is initialized anew, and then it *)
(* grows: a caller who got an LSN from ptrack_init_lsn() finds the same    *)
(* LSN while the epoch lasts and a strictly greater one in a later epoch.  *)
(***************************************************************************)
C7_InitLsnIncreases ==
    (init_ret.called /\ init_ret.epoch > 0 /\ ptrack_map # NULL) =>
       /\ init_ret.epoch = epoch.n => ptrack_map.init_lsn = init_ret.lsn
       /\ init_ret.epoch < epoch.n => ptrack_map.init_lsn > init_ret.lsn
       /\ init_ret.epoch <= epoch.n

\* a caller saw an init LSN, the server crashed and started with a new map
C7_Witness ==
    /\ init_ret.called
    /\ init_ret.epoch > 0
    /\ init_ret.epoch < epoch.n
    /\ ptrack_map # NULL
    /\ epoch.boot = "init"

(***************************************************************************)
(* C8: a restart leaves no map (disabled), or the map written by the last  *)
(* completed checkpoint (size, init_lsn and every slot), or a new map with *)
(* every slot invalid and a greater init_lsn; without a valid persisted    *)
(* map it is never the second.                                             *)
(***************************************************************************)
C8_RestartOutcome ==
    [][(srv = "down" /\ srv' = "up") =>
         LET fresh == /\ ptrack_map' # NULL
                      /\ \A i \in DOMAIN ptrack_map'.entries :
                            ptrack_map'.entries[i] = InvalidXLogRecPtr
                      /\ DOMAIN ptrack_map'.entries = 0..(ptrack_map_size' - 1)
                      /\ ptrack_map'.init_lsn > epoch.lsn
                      /\ epoch'.n = epoch.n + 1
             loaded == /\ ckpt # NULL
                       /\ mapfile = ckpt
                       /\ ptrack_map_size' = ckpt.size
                       /\ ptrack_map' = [init_lsn |-> ckpt.init_lsn, entries |-> ckpt.entries]
                       /\ epoch'.n = epoch.n
         IN \/ ptrack_map_size' = 0 /\ ptrack_map' = NULL
            \/ ptrack_map_size' # 0 /\ (loaded \/ fresh)]_vars

\* the server came up with the map of the last checkpoint, a slot of it marked
C8_Witness ==
    /\ srv = "up"
    /\ epoch.boot = "load"
    /\ ptrack_map # NULL
    /\ ptrack_map = [init_lsn |-> ckpt.init_lsn, entries |-> ckpt.entries]
    /\ \E i \in DOMAIN ptrack_map.entries : ptrack_map.entries[i] # InvalidXLogRecPtr

(***************************************************************************)
(* C9: ptrack_init_lsn() never fails: with a map it returns the map's      *)
(* init_lsn, without one it warns and returns InvalidXLogRecPtr; it leaves *)
(* the map and the persisted map as they are.                              *)
(***************************************************************************)
C9_InitLsnNeverFails ==
    /\ [](~init_ret.error)
    /\ [][init_ret' # init_ret =>
            /\ init_ret'.called
            /\ init_ret'.lsn = (IF ptrack_map = NULL THEN InvalidXLogRecPtr
                                ELSE ptrack_map.init_lsn)
            /\ init_ret'.warning = (ptrack_map = NULL)
            /\ UNCHANGED <<ptrack_map, ptrack_map_size, mapfile>>]_vars

\* the function was called without a map
C9_Witness ==
    /\ init_ret.called
    /\ init_ret.warning
    /\ init_ret.lsn = InvalidXLogRecPtr
    /\ ptrack_map = NULL

(***************************************************************************)
(* C10: once a cancel is signalled during the block scan, the query starts *)
(* scanning no further file, and a cancelled query returns no row and      *)
(* keeps no bitmap.                                                        *)
(***************************************************************************)
C10_CancelBetweenFiles ==
    [][/\ (InterruptPending /\ qpc = "scan")
            => ~(qpc' = "scan" /\ Len(ctx'.filelist) < Len(ctx.filelist))
       /\ qpc' = "cancelled" => (row' = NoRow /\ pagemap' = EmptyPagemap)]_vars

\* the file list a step of the query takes its next file from
ListBefore == IF qpc = "gather" THEN GatherAll ELSE ctx.filelist

\* a step of the query that takes the next file from the list
TakeStep ==
    \/ qpc \in {"gather", "call"} /\ qpc' \in {"scan", "done"}
    \/ qpc = "scan" /\ SegmentDone(ctx) /\ ~HasBitmap(pagemap) /\ QueryStep

\* the list from its n-th file on
ListFrom(l, n) == SubSeq(l, n, Len(l))

(***************************************************************************)
(* C11: a file whose stat() fails is skipped.  A step that takes the next  *)
(* file returns no row and raises no error; it ends the query only when    *)
(* the list is used up; and the file it stops at is scanned exactly as if  *)
(* the files skipped before it had not been in the list.  A directory     *)
(* entry whose lstat() fails is not listed and so never scanned.           *)
(***************************************************************************)
C11_StatFailureSkipped ==
    /\ [](qpc \in {"scan", "call"} => ctx.bid.relnode.relNode # GoneFile(4).oid)
    /\ [][TakeStep =>
         /\ row' = NoRow
         /\ qpc' \in {"scan", "done"}
         /\ qpc' = "done" => ctx'.filelist = <<>>
         /\ qpc' = "scan" =>
               LET n == Len(ListBefore) - Len(ctx'.filelist)
                   rest == ListFrom(ListBefore, n)
                IN /\ n >= 1
                   /\ \E sz \in StatResults \ {-1} :
                        LET r == ptrack_filelist_getnext(
                                     [ctx EXCEPT !.filelist = rest],
                                     [i \in 1..Len(rest) |-> IF i = 1 THEN sz ELSE 0])
                        IN /\ r.ret = 0
                           /\ IF qpc = "scan"
                              THEN /\ ctx' = [r.ctx EXCEPT !.bid.blocknum = @ + 1]
                                   /\ pagemap' =
                                        IF BlockChanged(ReadSlot(ptrack_map, r.ctx.bid), ctx.lsn)
                                        THEN datapagemap_add(pagemap,
                                                 r.ctx.bid.blocknum % RELSEG_SIZE)
                                        ELSE pagemap
                              ELSE /\ ctx' = r.ctx
                                   /\ pagemap' = EmptyPagemap]_vars

\* stat() failed for the first two files of the list and the third, a segment
\* file, is about to be scanned: no slot reaches the threshold, so no row was
\* returned and no block of the third file has been read
C11_Witness ==
    /\ qpc = "scan"
    /\ Len(ctx.filelist) = Len(GatherAll) - 3
    /\ ctx.relpath.segno = 1
    /\ ctx.bid.blocknum = CurFirstBlock(ctx)
    /\ CurNBlocks(ctx) > 0
    /\ \A i \in DOMAIN ptrack_map.entries : ptrack_map.entries[i] < ctx.lsn

(***************************************************************************)
(* C12: the query is finite.  A query that was started reports the end     *)
(* after finitely many calls; a call returns at most one row, made from    *)
(* the one file it scanned last; when the end is reported the list is      *)
(* empty and no row is returned then or afterwards.                        *)
(***************************************************************************)
C12_QueryFinite ==
    /\ (qpc \in {"gather", "scan", "call"}) ~> (qpc = "done")
    /\ [](qpc = "done" => row = NoRow /\ ctx.filelist = <<>>)
    /\ [][/\ qpc' = "call" => qpc = "scan" /\ row = NoRow
          /\ qpc = "done" => row' = NoRow]_vars

\* with threshold 0 the last file of the list was scanned to its end and
\* returned, and the next call reported the end
C12_Witness ==
    /\ qpc = "done"
    /\ ctx.lsn = 0
    /\ ctx.relpath = [path |-> GatherAll[Len(GatherAll)].path,
                      segno |-> GatherAll[Len(GatherAll)].segno]
    /\ CurNBlocks(ctx) = RELSEG_SIZE
    /\ SegmentDone(ctx)

\* the relation files of the data directory in traversal order: global, then
\* base, then pg_tblspc, each directory in readdir order
ExpectedFiles ==
    << [path |-> RelPathOf(InvalidOid, GLOBALTABLESPACE_OID, 1, MAIN_FORKNUM), segno |-> 0],
       [path |-> RelPathOf(5, DEFAULTTABLESPACE_OID, 2, MAIN_FORKNUM), segno |-> 0],
       [path |-> RelPathOf(5, DEFAULTTABLESPACE_OID, 2, MAIN_FORKNUM), segno |-> 1],
       [path |-> RelPathOf(5, 7, 3, MAIN_FORKNUM), segno |-> 0] >>

(***************************************************************************)
(* C13: the query is one pass in enumeration order.  With k files taken    *)
(* from the list, the file scanned or returned is the k-th file of the     *)
(* traversal order; the list only loses entries at its head; and the call  *)
(* after a row passes to a later entry, so rows come in list order, at     *)
(* most one for an entry.                                                  *)
(***************************************************************************)
C13_OnePassInOrder ==
    /\ [](qpc \in {"scan", "call"} =>
            LET k == Len(ExpectedFiles) - Len(ctx.filelist)
            IN /\ k \in 1..Len(ExpectedFiles)
               /\ ctx.relpath = ExpectedFiles[k]
               /\ qpc = "call" => row.path = ExpectedFiles[k])
    /\ [][(QueryStep /\ qpc \in {"scan", "call"} /\ qpc' \in {"scan", "call", "done"}) =>
            /\ \E j \in 1..(Len(ctx.filelist) + 1) :
                  ctx'.filelist = ListFrom(ctx.filelist, j)
            /\ qpc = "call" =>
                  \/ qpc' = "done" /\ ctx'.filelist = <<>>
                  \/ qpc' = "scan" /\ Len(ctx'.filelist) < Len(ctx.filelist)
            /\ qpc' = "call" => ctx'.filelist = ctx.filelist]_vars

\* the third file of the list, a segment file, is returned for a threshold
\* above 0 while one file is left in the list
C13_Witness ==
    /\ qpc = "call"
    /\ row.path = ExpectedFiles[3]
    /\ Len(ctx.filelist) = 1
    /\ ctx.lsn > 0

\* tablespace and database of the files of a copied directory
CopiedScope ==
    IF copied.path.top = "base"
    THEN [spcNode |-> DEFAULTTABLESPACE_OID, dbNode |-> copied.path.oid1]
    ELSE [spcNode |-> copied.path.oid1, dbNode |-> copied.path.oid2]

\* the file the query scans is entry i of the copied directory
ScansCopiedFile(i) ==
    LET de == DirOf(copied.path)[i]
    IN /\ IsRelFile(de)
       /\ ctx.bid.relnode = [spcNode |-> CopiedScope.spcNode, dbNode |-> CopiedScope.dbNode,
                             relNode |-> de.oid]
       /\ ctx.bid.forknum = de.forknum
       /\ ctx.relpath.segno = de.seg

\* the query runs, it started after the directory copy completed, and its
\* threshold is not above the LSN of the copy
QueryAfterCopy ==
    /\ copied # NULL
    /\ copied.queried
    /\ qpc \in {"scan", "call"}
    /\ ctx.lsn <= copied.lsn

(***************************************************************************)
(* C14: after ptrack_copydir_hook has marked a directory with an LSN, a    *)
(* query with a threshold up to that LSN sets the bit of every block the   *)
(* copy marked as soon as it has read it, whatever the slots held before,  *)
(* and returns every file of the directory that had blocks, with the bits  *)
(* of all its marked blocks the scan reached.                              *)
(***************************************************************************)
C14_CopiedTreeReported ==
    /\ [](QueryAfterCopy =>
            \A i \in 1..Len(DirOf(copied.path)) :
               ScansCopiedFile(i) =>
                  \A o \in 0..(copied.nblk[i] - 1) :
                     CurFirstBlock(ctx) + o < ctx.bid.blocknum
                        => o \in (IF qpc = "call" THEN row.pagemap ELSE pagemap.bits))
    /\ [][(QueryAfterCopy /\ qpc = "scan" /\ SegmentDone(ctx) /\ QueryStep) =>
            \A i \in 1..Len(DirOf(copied.path)) :
               (ScansCopiedFile(i) /\ copied.nblk[i] > 0) =>
                  /\ qpc' = "call"
                  /\ row'.path = ctx.relpath
                  /\ \A o \in 0..(copied.nblk[i] - 1) :
                        o <= CurNBlocks(ctx) => o \in row'.pagemap]_vars

\* a directory was copied over slots that held nothing, then a query with the
\* LSN of the copy as threshold returned the second segment of a relation in
\* it with every block set
C14_Witness ==
    /\ QueryAfterCopy
    /\ qpc = "call"
    /\ ctx.lsn = copied.lsn
    /\ \A i \in DOMAIN mapfile.entries : mapfile.entries[i] = InvalidXLogRecPtr
    /\ copied.path.top = "base"
    /\ ScansCopiedFile(4)
    /\ copied.nblk[4] = RELSEG_SIZE
    /\ CurNBlocks(ctx) = RELSEG_SIZE
    /\ row.pagemap = 0..(RELSEG_SIZE - 1)

(***************************************************************************)
(* C15: a mark of page k1 changes at most the slot of k1.  A step that     *)
(* marks k1 with an LSN above all its earlier marks leaves every other     *)
(* slot, and so the slot of every key k2 hashing elsewhere, init_lsn and   *)
(* the number of slots as they were; a mark with a lower LSN changes       *)
(* nothing of the map.                                                     *)
(***************************************************************************)
C15_MarkChangesOneSlot ==
    [][ptrack_map # NULL =>
         /\ \A k1 \in MarkKeys :
               maxMark'[k1] # maxMark[k1] =>
                  /\ ptrack_map' # NULL
                  /\ ptrack_map'.init_lsn = ptrack_map.init_lsn
                  /\ DOMAIN ptrack_map'.entries = DOMAIN ptrack_map.entries
                  /\ ptrack_map_size' = ptrack_map_size
                  /\ \A i \in DOMAIN ptrack_map.entries :
                        i # BID_HASH_FUNC(k1, NSlots(ptrack_map))
                           => ptrack_map'.entries[i] = ptrack_map.entries[i]
                  /\ \A k2 \in MarkKeys :
                        BID_HASH_FUNC(k2, NSlots(ptrack_map))
                              # BID_HASH_FUNC(k1, NSlots(ptrack_map))
                           => ReadSlot(ptrack_map', k2) = ReadSlot(ptrack_map, k2)
         /\ maxMark' = maxMark => ptrack_map' = ptrack_map]_vars

\* page A was marked and page B, which hashes to another slot, was not: the
\* slot of B still holds nothing
C15_Witness ==
    /\ ptrack_map # NULL
    /\ maxMark[KeyA] = MaxLsn
    /\ maxMark[KeyB] = 0
    /\ BID_HASH_FUNC(KeyA, NSlots(ptrack_map)) # BID_HASH_FUNC(KeyB, NSlots(ptrack_map))
    /\ ReadSlot(ptrack_map, KeyA) = MaxLsn
    /\ ReadSlot(ptrack_map, KeyB) = InvalidXLogRecPtr

\* the query is on the file of the remembered row, with the same threshold,
\* and the file is not smaller than it was
SeenApplies ==
    /\ seen # NULL
    /\ seen # NoWatch
    /\ qpc \in {"scan", "call"}
    /\ ctx.lsn = seen.lsn
    /\ ctx.relpath = seen.path
    /\ ctx.relsize >= seen.relsize

(***************************************************************************)
(* C16: marks are never undone within an epoch.  Once a query returned a   *)
(* page of a file for a threshold, every query with the same threshold     *)
(* that finishes the scan of that file, not smaller than it was, has the   *)
(* bit of that page set and returns the page, whatever marks interleave.   *)
(***************************************************************************)
C16_ReportedStaysReported ==
    /\ [](SeenApplies =>
            /\ qpc = "call" => seen.bit \in row.pagemap
            /\ (qpc = "scan" /\ SegmentDone(ctx)) => seen.bit \in pagemap.bits)
    /\ [][(SeenApplies /\ qpc = "scan" /\ SegmentDone(ctx) /\ QueryStep) =>
            qpc' = "call" /\ seen.bit \in row'.pagemap]_vars

\* a page was returned for a threshold above 0; a later query with that
\* threshold found the file larger and returned the page again
C16_Witness ==
    /\ SeenApplies
    /\ qpc = "call"
    /\ seen.lsn > 0
    /\ ctx.relsize > seen.relsize
    /\ seen.bit \in row.pagemap

\* the shared state: the map and the persisted map
SharedState == [map |-> ptrack_map, file |-> mapfile]

\* the hooks that can have made the step, judged by what it changed
HooksOfStep ==
    IF mapfile' # mapfile THEN {"ProcessSyncRequests"}
    ELSE IF copied' # copied THEN {"copydir"}
    ELSE IF ptrack_map' # ptrack_map THEN {"mdwrite", "mdextend"}
    ELSE HookNames

(***************************************************************************)
(* C17: each of the four hooks does its ptrack action first and then calls *)
(* the hook installed before it, once if there is one and not at all       *)
(* otherwise.  A previous hook is called only if it is installed, at most  *)
(* once for a call of ptrack's hook, and it finds the action done: the     *)
(* page it is given marked and no other slot changed, the directory        *)
(* marked, the map flushed.  A call of a ptrack hook whose previous hook   *)
(* is installed always calls it.                                           *)
(***************************************************************************)
C17_HooksChain ==
    /\ [](/\ Len(prev_called) <= 1
          /\ \A n \in 1..Len(prev_called) :
                LET c == prev_called[n]
                IN /\ c.hook \in prev_hooks
                   /\ c.saw = SharedState
                   /\ c.hook \in {"mdwrite", "mdextend"} =>
                         /\ c.arg \in MarkKeys
                         /\ maxMark[c.arg] > 0
                         /\ ReadSlot(c.saw.map, c.arg) >= maxMark[c.arg]
                   /\ c.hook = "copydir" =>
                         /\ c.arg = copied.path
                         /\ \A k \in WalkKeys(DirOf(copied.path), CopiedScope.spcNode,
                                              CopiedScope.dbNode, copied.nblk) :
                               ReadSlot(c.saw.map, k) >= copied.lsn
                   /\ c.hook = "ProcessSyncRequests" =>
                         c.saw.file = Snapshot(c.saw.map))
    /\ [][(SharedState' # SharedState \/ copied' # copied \/ prev_called' # prev_called) =>
            /\ prev_called' = <<>> => HooksOfStep \ prev_hooks # {}
            /\ prev_called' # <<>> =>
                  /\ Len(prev_called') = 1
                  /\ prev_called'[1].hook \in HooksOfStep
                  /\ prev_called'[1].hook \in {"mdwrite", "mdextend"} =>
                        \A i \in DOMAIN ptrack_map.entries :
                           i # BID_HASH_FUNC(prev_called'[1].arg, NSlots(ptrack_map))
                              => ptrack_map'.entries[i] = ptrack_map.entries[i]]_vars

\* the write hook marked page A where a previous write hook is installed and
\* no previous extend hook: the previous hook was called once with page A
C17_Witness ==
    /\ prev_hooks = {"mdwrite", "ProcessSyncRequests"}
    /\ Len(prev_called) = 1
    /\ prev_called[1].hook = "mdwrite"
    /\ prev_called[1].arg = KeyA
    /\ ReadSlot(ptrack_map, KeyA) = xlog
    /\ ReadSlot(ptrack_map, KeyB) = InvalidXLogRecPtr
    /\ mapfile # NULL

ScannedBlocks == CurFirstBlock(ctx)..(ctx.bid.blocknum - 1)

\* every bit is the offset of a block read in the file ctx is on, and the
\* slot of that block holds an LSN >= the threshold
BitsOfCurrentFile(bits) ==
    \A o \in bits :
        \E b \in ScannedBlocks :
            /\ b % RELSEG_SIZE = o
            /\ ReadSlot(ptrack_map, [ctx.bid EXCEPT !.blocknum = b]) >= ctx.lsn

(***************************************************************************)
(* C19: a bitmap carries no bit from one file to another.  The bitmap is   *)
(* empty whenever the scan passes to a file (after a returned row, after   *)
(* an unchanged file, after files whose stat() failed), so the bits of a   *)
(* bitmap, and of a returned row, are offsets of blocks read in the file   *)
(* the scan is on, the file the row names.                                 *)
(***************************************************************************)
C19_BitmapPerFile ==
    /\ [](qpc = "scan" =>
            /\ pagemap.allocated <=> pagemap.bits # {}
            /\ BitsOfCurrentFile(pagemap.bits))
    /\ [](qpc = "call" =>
            /\ pagemap = EmptyPagemap
            /\ row.path = ctx.relpath
            /\ BitsOfCurrentFile(row.pagemap))
    /\ [][(QueryStep /\ qpc \in {"gather", "call", "scan"}
                     /\ ctx'.filelist # ctx.filelist) =>
            /\ pagemap = EmptyPagemap
            /\ pagemap'.bits \subseteq
                  IF qpc = "scan" /\ qpc' = "scan"
                  THEN {CurFirstBlock(ctx') % RELSEG_SIZE} ELSE {}]_vars

\* a row of segment 0 with bit 0 was returned for this threshold; the row of
\* segment 1, the next file, has bit 1 only
C19_Witness ==
    /\ qpc = "call"
    /\ seen # NULL
    /\ seen.lsn = ctx.lsn
    /\ ctx.lsn > 0
    /\ seen.path = [path |-> RelPathOf(5, DEFAULTTABLESPACE_OID, 2, MAIN_FORKNUM), segno |-> 0]
    /\ seen.bit = 0
    /\ row.path = [path |-> RelPathOf(5, DEFAULTTABLESPACE_OID, 2, MAIN_FORKNUM), segno |-> 1]
    /\ row.pagemap = {1}

(***************************************************************************)
(* C20: a page whose slot was never marked (the slot holds                 *)
(* InvalidXLogRecPtr) is never reported, for any threshold, 0 included:    *)
(* every bit of a returned row that is the offset of a page of the file    *)
(* belongs to a page whose slot holds a valid LSN.  The bit of block       *)
(* relsize, which the scan reads past the end of the file, is left aside.  *)
(***************************************************************************)
C20_UnmarkedNeverReported ==
    qpc = "call" =>
        \A o \in row.pagemap :
            (o < CurNBlocks(ctx) /\ o # ctx.relsize % RELSEG_SIZE) =>
                SlotOfOffset(o) # InvalidXLogRecPtr

=============================================================================
